---- MODULE Spec2Model ----
(***************************************************************************)
(* Model of gPhoton.PhotonPipe.photonpipe: the coordinator that loads a    *)
(* photon stream, partitions it into chunks, fans the chunks out to a      *)
(* multiprocessing.Pool (or runs them inline), joins the pool, merges the  *)
(* per-chunk results in chunk-index order and writes one parquet table.    *)
(*                                                                         *)
(* Python dicts are modelled as sequences of [key, val] entries in         *)
(* insertion order, which is the order dict iteration uses.  Chunk indices *)
(* are 0-based as in the source; TLA+ sequences are 1-based.               *)
(***************************************************************************)
EXTENDS Integers, Sequences, FiniteSets, TLC

(* ------------------------------ bounds -------------------------------- *)
MaxPhotons == 3
MaxChunkSz == 2
MaxThreads == 2

(* ------------------------- program constants -------------------------- *)
YacEclipse == 37460
\* Python's None, for the arguments that default to it and for "no return yet"
None == "None"
\* threads=None (no pool) is modelled as pool size 0
NoThreads == 0
Columns == <<"t", "x">>

VARIABLES
    pc,             \* position of the coordinator inside photonpipe
    outcomes,       \* the ways a call of the chunk function can end in this run
    threads,        \* argument threads: NoThreads or a pool size
    share_memory,   \* argument share_memory: None, "True" or "False", resolved at entry
    overwrite,      \* argument overwrite
    verbose,        \* argument verbose
    chunksz,        \* argument chunksz
    eclipse,        \* exposure id
    raw6,           \* the decoded content of the raw6 file (what load_raw6 yields)
    outfile,        \* the output path: "absent", "old" (left by an earlier run) or "new"
    table,          \* content of the file written by this run
    warned,         \* warnings.warn was called at entry
    aspect,         \* aspect solution retrieved
    cal_data,       \* "none", "local" (loaded) or "shared" (published)
    data,           \* the photon stream held by the coordinator
    nphots,         \* photon count returned by load_raw6
    stim_coefficients,
    yac_applied,
    chunks,         \* list of chunks still to be submitted
    total_chunks,
    chunk_ix,       \* loop variable of the submission loop
    pool,           \* "unset", "none" (pool = None), "open", "closed" or "joined"
    inqueue,        \* the pool's task queue: submitted tasks no worker has taken yet
    results,        \* dict chunk_ix -> AsyncResult or worker result
    collected,      \* the dict that line 187 builds from result.get()
    get_ix,         \* next entry of results.items() line 187 visits
    raised,         \* the exception that left photonpipe, None when none did
    task,           \* per chunk index: state of the chunk task
    taskargs,       \* per chunk index: process_args of the chunk task
    taskres,        \* per chunk index: what the chunk task returned
    finished,       \* history: chunk indices in the order their tasks ended
    seg,            \* per shared segment: "none", "linked" or "unlinked"
    shm,            \* content of the shared segments
    unlinks,        \* per shared segment: number of unlink calls
    chunk_indices,
    array_dict,     \* merged columns, dict name -> array
    col_ix,         \* next column of results[0].keys() to merge
    proc_count,
    missing_warned, \* the MISSING EVENTS line was printed
    returned,       \* value returned by photonpipe
    share_memory_arg, \* history: the share_memory argument as the caller gave it
    existed         \* history: the output file existed when photonpipe was called

vars == <<pc, threads, share_memory, overwrite, verbose, chunksz, eclipse,
          raw6, outfile, table, warned, aspect, cal_data, data, nphots,
          stim_coefficients, yac_applied, chunks, total_chunks, chunk_ix,
          pool, inqueue, results, collected, get_ix, raised, task, taskargs,
          taskres, finished, seg, shm, unlinks,
          chunk_indices, array_dict, col_ix, proc_count, missing_warned,
          returned, share_memory_arg, existed, outcomes>>

args == <<threads, overwrite, verbose, chunksz, eclipse, raw6,
          share_memory_arg, existed, outcomes>>
loaded == <<aspect, cal_data, data, nphots, stim_coefficients, yac_applied>>
fanout == <<chunks, total_chunks, chunk_ix, pool, inqueue, results, collected,
            get_ix, raised, task, taskargs, taskres, finished>>
shared == <<seg, shm, unlinks>>
merged == <<chunk_indices, array_dict, col_ix, proc_count>>
output == <<outfile, table, missing_warned, returned>>

(* ------------------------------ helpers ------------------------------- *)
Min(a, b) == IF a < b THEN a ELSE b

Range(s) == {s[i] : i \in 1..Len(s)}

RECURSIVE ConcatFirst(_, _)
\* the first n arrays of a list, one after the other
ConcatFirst(ss, n) == IF n = 0 THEN <<>> ELSE ConcatFirst(ss, n - 1) \o ss[n]

\* np.hstack of a list of arrays
Concat(ss) == ConcatFirst(ss, Len(ss))

\* sorted() of a set of integers: element i has i - 1 smaller ones
SortedSeq(S) ==
    [i \in 1..Cardinality(S) |->
        CHOOSE x \in S : Cardinality({y \in S : y < x}) = i - 1]

\* dict helpers: a dict is a sequence of [key, val] entries in insertion order
Keys(d) == [i \in 1..Len(d) |-> d[i].key]
HasKey(d, k) == \E i \in 1..Len(d) : d[i].key = k
Lookup(d, k) == d[CHOOSE i \in 1..Len(d) : d[i].key = k].val
Store(d, k, v) ==
    IF HasKey(d, k)
    THEN [i \in 1..Len(d) |-> IF d[i].key = k THEN [key |-> k, val |-> v] ELSE d[i]]
    ELSE Append(d, [key |-> k, val |-> v])

ChunkIxs == 0..(MaxPhotons + 1)

\* the values the results dict holds: an AsyncResult of a pool task, or the
\* dict a chunk function returned
AsyncResult(k) == [kind |-> "AsyncResult", task |-> k, cols |-> <<>>]
ResultDict(d) == [kind |-> "dict", task |-> -1, cols |-> d]

\* shared segment identities
CalSeg == <<"cal", 0>>
DataSeg == <<"data", 0>>
ResSeg(k) == <<"res", k>>
ExtSeg(k) == <<"ext", k>>
Segments ==
    {CalSeg, DataSeg} \cup {ResSeg(k) : k \in ChunkIxs} \cup {ExtSeg(k) : k \in ChunkIxs}

(* ------------------------------ inputs -------------------------------- *)
\* a decoded photon: time tag t and raw detector coordinate y
RawPhoton(i) == [t |-> i, y |-> (2 * i) % 3]
RawStream(n) == [i \in 1..n |-> RawPhoton(i)]

\* a chunk function that keeps the output schema returns its result ("ok")
\* or raises ("failed")
WorkerOutcomes == {"ok", "failed"}

\* a chunk function that does not keep the schema: its result lacks column x
\* ("nocol"), has a column e on top ("xcol"), or has lost its last row ("short")
SchemaBreaks == {{"ok", "nocol"}, {"ok", "xcol"}, {"ok", "short"}}

Start(o) ==
    /\ outcomes = o
    /\ pc = "entry"
    /\ threads \in {NoThreads} \cup (1..MaxThreads)
    /\ share_memory \in {None, "True", "False"}
    /\ overwrite \in BOOLEAN
    /\ verbose \in {0, 1}
    /\ chunksz \in 1..MaxChunkSz
    /\ eclipse \in {YacEclipse - 1, YacEclipse, YacEclipse + 1}
    /\ raw6 \in {RawStream(n) : n \in 0..MaxPhotons}
    /\ outfile \in {"absent", "old"}
    /\ table = <<>>
    /\ warned = FALSE
    /\ aspect = FALSE
    /\ cal_data = "none"
    /\ data = <<>>
    /\ nphots = 0
    /\ stim_coefficients = 0
    /\ yac_applied = FALSE
    /\ chunks = <<>>
    /\ total_chunks = 0
    /\ chunk_ix = 0
    /\ pool = "unset"
    /\ inqueue = <<>>
    /\ results = <<>>
    /\ collected = <<>>
    /\ get_ix = 1
    /\ raised = None
    /\ task = [k \in ChunkIxs |-> "none"]
    /\ taskargs = [k \in ChunkIxs |-> <<>>]
    /\ taskres = [k \in ChunkIxs |-> <<>>]
    /\ finished = <<>>
    /\ seg = [s \in Segments |-> "none"]
    /\ shm = [s \in Segments |-> <<>>]
    /\ unlinks = [s \in Segments |-> 0]
    /\ chunk_indices = <<>>
    /\ array_dict = <<>>
    /\ col_ix = 1
    /\ proc_count = 0
    /\ missing_warned = FALSE
    /\ returned = None
    /\ share_memory_arg = share_memory
    /\ existed = (outfile = "old")

Init == Start(WorkerOutcomes)

\* a run whose chunk function may break the schema in one way; the output
\* path is free and the eclipse is one that gets the yac correction
InitAnyResult ==
    \E o \in SchemaBreaks :
        Start(o) /\ outfile = "absent" /\ ~overwrite /\ eclipse = YacEclipse + 1

(* ------------------------- photonpipe, entry -------------------------- *)
\* variant of DefaultShareMemory that enables shared memory without a pool
DefaultShareMemoryAlways == "True"

\* line 98: share_memory = threads is not None
DefaultShareMemory == IF threads # NoThreads THEN "True" ELSE "False"

\* lines 97-104: default share_memory from threads, warn when it is enabled
\* without a pool
Entry ==
    /\ pc = "entry"
    /\ LET sm == IF share_memory = None
                 THEN DefaultShareMemory
                 ELSE share_memory
       IN  /\ share_memory' = sm
           /\ warned' = (sm = "True" /\ threads = NoThreads)
    /\ pc' = "check_outfile"
    /\ UNCHANGED <<args, loaded, fanout, shared, merged, output>>

\* variant of Deletes that ignores the overwrite flag
DeletesRegardless == TRUE

\* line 108: an existing output is deleted when overwrite is set
Deletes == overwrite

\* variant of RemoveOutfile that leaves the existing file in place
KeepOutfile == "old"

\* line 110: outfile.unlink()
RemoveOutfile == "absent"

\* lines 106-113: an existing output is deleted (overwrite) or returned as is
CheckOutfile ==
    /\ pc = "check_outfile"
    /\ IF outfile # "absent"
       THEN IF Deletes
            THEN /\ outfile' = RemoveOutfile
                 /\ pc' = "retrieve"
                 /\ UNCHANGED returned
            ELSE /\ returned' = "outfile"
                 /\ pc' = "returned"
                 /\ UNCHANGED outfile
       ELSE /\ pc' = "retrieve"
            /\ UNCHANGED <<outfile, returned>>
    /\ UNCHANGED <<args, share_memory, warned, loaded, fanout, shared, merged,
                   table, missing_warned>>

(* --------------------- photonpipe, full-stream steps ------------------ *)
\* lines 115-130: raw6 file, eclipse, FUV offsets and the aspect solution
Retrieve ==
    /\ pc = "retrieve"
    /\ aspect' = TRUE
    /\ pc' = "load_cal"
    /\ UNCHANGED <<args, share_memory, warned, cal_data, data, nphots,
                   stim_coefficients, yac_applied, fanout, shared, merged, output>>

\* lines 132-134: load_cal_data, then send_cals_to_shared_memory in shared mode
LoadCal ==
    /\ pc = "load_cal"
    /\ IF share_memory = "True"
       THEN /\ cal_data' = "shared"
            /\ seg' = [seg EXCEPT ![CalSeg] = "linked"]
       ELSE /\ cal_data' = "local"
            /\ UNCHANGED seg
    /\ pc' = "load_raw6"
    /\ UNCHANGED <<args, share_memory, warned, aspect, data, nphots,
                   stim_coefficients, yac_applied, fanout, shm, unlinks, merged,
                   output>>

\* line 136: data, nphots = load_raw6(...)
LoadRaw6 ==
    /\ pc = "load_raw6"
    /\ data' = raw6
    /\ nphots' = Len(raw6)
    /\ pc' = "stims"
    /\ UNCHANGED <<args, share_memory, warned, aspect, cal_data,
                   stim_coefficients, yac_applied, fanout, shared, merged, output>>

RECURSIVE SumY(_)
SumY(d) == IF d = <<>> THEN 0 ELSE Head(d).y + SumY(Tail(d))

\* create_ssd_from_decoded_data: coefficients aggregated over the whole stream
create_ssd_from_decoded_data(d) == SumY(d) % 2

\* perform_yac_correction: shifts the detector coordinate of every photon
perform_yac_correction(d) == [i \in 1..Len(d) |-> [d[i] EXCEPT !.y = @ + 1]]

\* lines 137-140: the stim pass over the full stream
Stims ==
    /\ pc = "stims"
    /\ stim_coefficients' = create_ssd_from_decoded_data(data)
    /\ pc' = "yac"
    /\ UNCHANGED <<args, share_memory, warned, aspect, cal_data, data, nphots,
                   yac_applied, fanout, shared, merged, output>>

\* variant of YacApplies that includes the threshold eclipse
YacAppliesFromThreshold == eclipse >= YacEclipse

\* line 142: the eclipses that get the yac correction
YacApplies == eclipse > YacEclipse

\* lines 142-147: post-CSP yac correction
Yac ==
    /\ pc = "yac"
    /\ IF YacApplies
       THEN /\ data' = perform_yac_correction(data)
            /\ yac_applied' = TRUE
       ELSE UNCHANGED <<data, yac_applied>>
    /\ pc' = "partition"
    /\ UNCHANGED <<args, share_memory, warned, aspect, cal_data, nphots,
                   stim_coefficients, fanout, shared, merged, output>>

(* ---------------------------- partitioner ----------------------------- *)
\* variant of make_chunk_slices that drops the rows after the last full chunk
MakeChunkSlicesNoTail(csz, n) ==
    [k \in 1..(n \div csz) |->
        [start |-> (k - 1) * csz, stop |-> Min(k * csz, n)]]

\* variant of make_chunk_slices without the trailing slice: no chunk for n = 0
MakeChunkSlicesCeil(csz, n) ==
    [k \in 1..((n + csz - 1) \div csz) |->
        [start |-> (k - 1) * csz, stop |-> Min(k * csz, n)]]

\* row ranges [start, stop) of the chunks: n div csz + 1 consecutive slices of
\* csz rows, the last one cut at n (and empty when csz divides n)
make_chunk_slices(csz, n) ==
    [k \in 1..((n \div csz) + 1) |->
        [start |-> (k - 1) * csz, stop |-> Min(k * csz, n)]]

\* unshared mode: every chunk is a copy of its rows
chunk_data(csz, d, n) ==
    LET sl == make_chunk_slices(csz, n)
    IN  [k \in 1..Len(sl) |-> SubSeq(d, sl[k].start + 1, sl[k].stop)]

\* shared mode: every chunk is a descriptor into the one data segment
slice_into_shared_chunks(csz, d, n) ==
    LET sl == make_chunk_slices(csz, n)
    IN  [k \in 1..Len(sl) |->
            [seg |-> DataSeg, offset |-> sl[k].start,
             shape |-> sl[k].stop - sl[k].start]]

\* lines 148-156
Partition ==
    /\ pc = "partition"
    /\ IF share_memory = "True"
       THEN /\ chunks' = slice_into_shared_chunks(chunksz, data, nphots)
            /\ seg' = [seg EXCEPT ![DataSeg] = "linked"]
            /\ shm' = [shm EXCEPT ![DataSeg] = data]
       ELSE /\ chunks' = chunk_data(chunksz, data, nphots)
            /\ UNCHANGED <<seg, shm>>
    /\ total_chunks' = Len(chunks')
    /\ data' = <<>>
    /\ pc' = "make_pool"
    /\ UNCHANGED <<args, share_memory, warned, aspect, cal_data, nphots,
                   stim_coefficients, yac_applied, chunk_ix, pool, inqueue,
                   results, collected, get_ix, raised, task, taskargs, taskres, finished,
                   unlinks, merged, output>>

\* variant of LoopStart that is off by one
LoopStartSkipsLast(total) == total - 2

\* line 162: reversed(range(total_chunks)) starts at the last index
LoopStart(total) == total - 1

\* lines 157-162: the pool, the empty results dict, the loop variable
MakePool ==
    /\ pc = "make_pool"
    /\ pool' = IF threads # NoThreads THEN "open" ELSE "none"
    /\ results' = <<>>
    /\ chunk_ix' = LoopStart(total_chunks)
    /\ pc' = "submit"
    /\ UNCHANGED <<args, share_memory, warned, loaded, chunks, total_chunks,
                   inqueue, collected, get_ix, raised, task, taskargs, taskres, finished,
                   shared, merged, output>>

(* ------------------------------ workers ------------------------------- *)
\* the per-photon calibration chain, reduced to one derived coordinate
Calibrate(row, stim) == row.y + stim

\* variant of ProgressLabel that counts from zero
ProgressLabelZeroBased(ix, total) == <<ix, total>>

\* line 169: f"{str(chunk_ix + 1)} of {str(total_chunks)}:"
ProgressLabel(ix, total) == <<ix + 1, total>>

\* variant of PassedStim in which the coefficients differ from chunk to chunk
PassedStimPerChunk(ix) == (stim_coefficients + ix) % 2

\* line 170: every chunk gets the coefficients of the full-stream pass
PassedStim(ix) == stim_coefficients

\* process_args of one chunk (lines 164-173)
ProcessArgs(chunk, ix, total) ==
    [aspect |-> aspect, cal_data |-> cal_data, chunk |-> chunk,
     label |-> ProgressLabel(ix, total), stim_coefficients |-> PassedStim(ix)]

\* process_chunk_in_unshared_memory: the chunk is its rows; the result maps
\* each column name to an array
process_chunk_in_unshared_memory(a) ==
    LET rows == a.chunk
    IN  << [key |-> "t", val |-> [i \in 1..Len(rows) |-> rows[i].t]],
           [key |-> "x", val |-> [i \in 1..Len(rows) |->
                                    Calibrate(rows[i], a.stim_coefficients)]] >>

\* process_chunk_in_shared_memory: the chunk is a descriptor; the result maps
\* each column name to a descriptor.  Times stay in the data segment, the
\* derived coordinate goes to a result segment the worker creates.
SharedRows(a, mem) ==
    SubSeq(mem[a.chunk.seg], a.chunk.offset + 1, a.chunk.offset + a.chunk.shape)

process_chunk_in_shared_memory(a, k) ==
    << [key |-> "t", val |-> a.chunk],
       [key |-> "x", val |-> [seg |-> ResSeg(k), offset |-> 0,
                              shape |-> a.chunk.shape]] >>

\* the result a chunk function hands back when it breaks the schema: d is the
\* result that keeps it, extra the content of the additional column
DropLast(v) ==
    IF share_memory = "True"
    THEN [v EXCEPT !.shape = IF @ > 0 THEN @ - 1 ELSE 0]
    ELSE SubSeq(v, 1, Len(v) - 1)

Returned(d, outcome, extra) ==
    CASE outcome = "nocol" -> SelectSeq(d, LAMBDA e : e.key # "x")
      [] outcome = "xcol"  -> Append(d, [key |-> "e", val |-> extra])
      [] outcome = "short" -> [i \in 1..Len(d) |->
                                 [key |-> d[i].key, val |-> DropLast(d[i].val)]]
      [] OTHER -> d

\* the segments a worker creates for its result
Created(k, outcome) ==
    CASE outcome = "nocol" -> {}
      [] outcome = "xcol"  -> {ResSeg(k), ExtSeg(k)}
      [] OTHER -> {ResSeg(k)}

ExtraColumn(rows) == [i \in 1..Len(rows) |-> rows[i].y]

SharedResultColumn(a, mem) ==
    LET rows == SharedRows(a, mem)
    IN  [i \in 1..Len(rows) |-> Calibrate(rows[i], a.stim_coefficients)]

\* the effect of running chunk_function(*process_args) to its end
RunChunk(k, a, outcome) ==
    /\ task' = [task EXCEPT ![k] = IF outcome = "failed" THEN "failed" ELSE "done"]
    /\ finished' = Append(finished, k)
    /\ IF outcome = "failed"
       THEN UNCHANGED <<taskres, seg, shm>>
       ELSE IF share_memory = "True"
            THEN /\ taskres' = [taskres EXCEPT
                      ![k] = Returned(process_chunk_in_shared_memory(a, k), outcome,
                                      [seg |-> ExtSeg(k), offset |-> 0,
                                       shape |-> a.chunk.shape])]
                 /\ seg' = [sg \in Segments |->
                              IF sg \in Created(k, outcome) THEN "linked" ELSE seg[sg]]
                 /\ shm' = [sg \in Segments |->
                              IF sg \notin Created(k, outcome) THEN shm[sg]
                              ELSE IF sg = ResSeg(k) THEN SharedResultColumn(a, shm)
                              ELSE ExtraColumn(SharedRows(a, shm))]
            ELSE /\ taskres' = [taskres EXCEPT
                      ![k] = Returned(process_chunk_in_unshared_memory(a), outcome,
                                      ExtraColumn(a.chunk))]
                 /\ UNCHANGED <<seg, shm>>

(* --------------------------- submission loop -------------------------- *)
\* variant of PopIndex: chunks.pop(0)
PopFirst(cs) == 1

\* line 163: chunks.pop() takes the last element of the list
PopIndex(cs) == Len(cs)

\* lines 162-179, one iteration: inline the chunk is processed on the spot,
\* with a pool it is queued with apply_async
Submit ==
    /\ pc = "submit"
    /\ chunk_ix >= 0
    /\ LET at == PopIndex(chunks)
           chunk == chunks[at]
           a == ProcessArgs(chunk, chunk_ix, total_chunks)
       IN  /\ chunks' = SubSeq(chunks, 1, at - 1) \o SubSeq(chunks, at + 1, Len(chunks))
           /\ taskargs' = [taskargs EXCEPT ![chunk_ix] = a]
           /\ IF pool = "none"
              THEN \E outcome \in outcomes :
                      /\ RunChunk(chunk_ix, a, outcome)
                      /\ IF outcome = "failed"
                         THEN /\ pc' = "raised"
                              /\ raised' = "WorkerError"
                              /\ UNCHANGED <<results, chunk_ix>>
                         ELSE /\ results' = Store(results, chunk_ix,
                                                  ResultDict(taskres'[chunk_ix]))
                              /\ chunk_ix' = chunk_ix - 1
                              /\ UNCHANGED <<pc, raised>>
                      /\ UNCHANGED inqueue
              ELSE /\ results' = Store(results, chunk_ix, AsyncResult(chunk_ix))
                   /\ task' = [task EXCEPT ![chunk_ix] = "queued"]
                   /\ inqueue' = Append(inqueue, chunk_ix)
                   /\ chunk_ix' = chunk_ix - 1
                   /\ UNCHANGED <<pc, raised, taskres, finished,
                                 seg, shm>>
    /\ UNCHANGED <<args, share_memory, warned, loaded, total_chunks, pool,
                   collected, get_ix, unlinks, merged, output>>

\* a pool worker takes the oldest queued task
TaskStart ==
    /\ inqueue # <<>>
    /\ pool \in {"open", "closed"}
    /\ Cardinality({k \in ChunkIxs : task[k] = "running"}) < threads
    /\ task' = [task EXCEPT ![Head(inqueue)] = "running"]
    /\ inqueue' = Tail(inqueue)
    /\ UNCHANGED <<pc, args, share_memory, warned, loaded, chunks, total_chunks,
                   chunk_ix, pool, results, collected, get_ix, raised, taskargs,
                   taskres, finished, shared, merged, output>>

\* a running task ends: its result or its exception is kept for get()
TaskFinish(k) ==
    /\ task[k] = "running"
    /\ \E outcome \in outcomes : RunChunk(k, taskargs[k], outcome)
    /\ UNCHANGED <<pc, args, share_memory, warned, loaded, chunks, total_chunks,
                   chunk_ix, pool, inqueue, results, collected, get_ix, raised,
                   taskargs, unlinks, merged, output>>

\* variant of AfterSubmit that goes on to the merger without lines 180-187
AfterSubmitNoBarrier == "sort"

\* line 180: with a pool the coordinator closes, joins and collects; without
\* one the results are already in the dict
AfterSubmit == IF pool = "none" THEN "sort" ELSE "join"

\* the loop of line 162 is exhausted; line 181 closes the pool
SubmitDone ==
    /\ pc = "submit"
    /\ chunk_ix < 0
    /\ pc' = AfterSubmit
    /\ pool' = IF pool = "none" THEN "none" ELSE "closed"
    /\ UNCHANGED <<args, share_memory, warned, loaded, chunks, total_chunks,
                   chunk_ix, inqueue, results, collected, get_ix, raised, task,
                   taskargs, taskres, finished, shared, merged, output>>

(* ------------------------------ barrier ------------------------------- *)
TaskComplete(k) == task[k] \in {"done", "failed"}

\* variant of JoinReturns: a join that does not wait
JoinNoWait == TRUE

\* pool.join() returns when the workers have run every submitted task
JoinReturns == \A k \in ChunkIxs : task[k] # "none" => TaskComplete(k)

\* line 186
PoolJoin ==
    /\ pc = "join"
    /\ JoinReturns
    /\ pool' = "joined"
    /\ collected' = <<>>
    /\ get_ix' = 1
    /\ pc' = "collect"
    /\ UNCHANGED <<args, share_memory, warned, loaded, chunks, total_chunks,
                   chunk_ix, inqueue, results, raised, task, taskargs, taskres, finished,
                   shared, merged, output>>

\* line 187, one entry of results.items(): result.get() waits for the task,
\* then returns its result or re-raises its exception
Get ==
    /\ pc = "collect"
    /\ get_ix <= Len(results)
    /\ LET k == results[get_ix].key
       IN  /\ TaskComplete(k)
           /\ IF task[k] = "failed"
              THEN /\ pc' = "raised"
                   /\ raised' = "WorkerError"
                   /\ UNCHANGED <<collected, get_ix>>
              ELSE /\ collected' = Store(collected, k, ResultDict(taskres[k]))
                   /\ get_ix' = get_ix + 1
                   /\ UNCHANGED <<pc, raised>>
    /\ UNCHANGED <<args, share_memory, warned, loaded, chunks, total_chunks,
                   chunk_ix, pool, inqueue, results, task, taskargs, taskres, finished,
                   shared, merged, output>>

\* line 187, the comprehension is complete and rebinds results
Collected ==
    /\ pc = "collect"
    /\ get_ix > Len(results)
    /\ results' = collected
    /\ pc' = "sort"
    /\ UNCHANGED <<args, share_memory, warned, loaded, chunks, total_chunks,
                   chunk_ix, pool, inqueue, collected, get_ix, raised, task,
                   taskargs, taskres, finished, shared, merged, output>>

(* ------------------------------- merger ------------------------------- *)
\* variant of SortedKeys: list(results.keys()), the insertion order
InsertionKeys(d) == Keys(d)

\* line 189: sorted(results.keys())
SortedKeys(d) == SortedSeq(Range(Keys(d)))

\* lines 188-190
Sort ==
    /\ pc = "sort"
    /\ chunk_indices' = SortedKeys(results)
    /\ array_dict' = <<>>
    /\ col_ix' = 1
    /\ pc' = IF share_memory = "True" THEN "unlink_cal" ELSE "merge"
    /\ UNCHANGED <<args, share_memory, warned, loaded, fanout, shared,
                   proc_count, output>>

\* unlink_cal_blocks(cal_data), line 192
UnlinkCal ==
    /\ pc = "unlink_cal"
    /\ seg' = [seg EXCEPT ![CalSeg] = "unlinked"]
    /\ unlinks' = [unlinks EXCEPT ![CalSeg] = @ + 1]
    /\ pc' = "merge"
    /\ UNCHANGED <<args, share_memory, warned, loaded, fanout, shm, merged, output>>

\* the array a descriptor stands for: times are read out of the photon rows of
\* the data segment, a result segment holds the array itself
ReadDescriptor(d, mem) ==
    LET cells == SubSeq(mem[d.seg], d.offset + 1, d.offset + d.shape)
    IN  IF d.seg = DataSeg THEN [i \in 1..Len(cells) |-> cells[i].t] ELSE cells

\* get_column_from_shared_memory(results, name): the column's arrays of all
\* chunks, in ascending chunk index, stacked
get_column_from_shared_memory(res, name, mem) ==
    LET ixs == SortedSeq(Range(Keys(res)))
    IN  Concat([i \in 1..Len(ixs) |->
                  ReadDescriptor(Lookup(Lookup(res, ixs[i]).cols, name), mem)])

\* the segments get_column_from_shared_memory(results, name, unlink=True)
\* reads and then unlinks, each once
ColumnSegments(res, name) ==
    {Lookup(res[i].val.cols, name).seg : i \in 1..Len(res)}

\* lines 198-203 for one name: np.hstack of the column over child_dicts
StackColumn(res, ixs, name) ==
    Concat([i \in 1..Len(ixs) |-> Lookup(Lookup(res, ixs[i]).cols, name)])

\* every chunk result has the column
AllHaveColumn(res, name) ==
    \A i \in 1..Len(res) : HasKey(res[i].val.cols, name)

\* variant of UnlinkFlag: the columns are read with unlink=False
UnlinkFlagOff == FALSE

\* line 195: unlink=True in every call of the loop
UnlinkFlag == TRUE

\* lines 193-196 and 200-203, one iteration of the loop over results[0].keys()
MergeColumn ==
    /\ pc = "merge"
    /\ IF ~HasKey(results, 0)
       THEN \* results[0] (shared) or child_dicts[0] (unshared) does not exist
            /\ pc' = "raised"
            /\ raised' = IF share_memory = "True" THEN "KeyError" ELSE "IndexError"
            /\ UNCHANGED <<array_dict, col_ix, seg, unlinks>>
       ELSE IF \E i \in 1..Len(results) : results[i].val.kind # "dict"
       THEN \* an AsyncResult has no keys() and cannot be indexed by name
            /\ pc' = "raised"
            /\ raised' = "AttributeError"
            /\ UNCHANGED <<array_dict, col_ix, seg, unlinks>>
       ELSE LET names == Keys(Lookup(results, 0).cols)
            IN  /\ col_ix <= Len(names)
                /\ LET name == names[col_ix]
                   IN  IF ~AllHaveColumn(results, name)
                       THEN /\ pc' = "raised"
                            /\ raised' = "KeyError"
                            /\ UNCHANGED <<array_dict, col_ix, seg, unlinks>>
                       ELSE IF share_memory = "True"
                       THEN LET read == ColumnSegments(results, name)
                                touched == IF UnlinkFlag THEN read ELSE {}
                            IN  IF \E sg \in read : seg[sg] # "linked"
                                THEN /\ pc' = "raised"
                                     /\ raised' = "FileNotFoundError"
                                     /\ UNCHANGED <<array_dict, col_ix, seg, unlinks>>
                                ELSE /\ array_dict' = Store(array_dict, name,
                                         get_column_from_shared_memory(results, name, shm))
                                     /\ seg' = [sg \in Segments |->
                                                 IF sg \in touched THEN "unlinked"
                                                 ELSE seg[sg]]
                                     /\ unlinks' = [sg \in Segments |->
                                                 IF sg \in touched THEN unlinks[sg] + 1
                                                 ELSE unlinks[sg]]
                                     /\ col_ix' = col_ix + 1
                                     /\ UNCHANGED <<pc, raised>>
                       ELSE /\ array_dict' = Store(array_dict, name,
                                         StackColumn(results, chunk_indices, name))
                            /\ col_ix' = col_ix + 1
                            /\ UNCHANGED <<pc, raised, seg, unlinks>>
    /\ UNCHANGED <<args, share_memory, warned, loaded, chunks, total_chunks,
                   chunk_ix, pool, inqueue, results, collected, get_ix, task,
                   taskargs, taskres, finished, shm, chunk_indices, proc_count, output>>

\* variant of ColumnLoopDone: the loop is left after its first column
ColumnLoopLeftEarly(names) == col_ix > 1

\* the loop over results[0].keys() has visited every name
ColumnLoopDone(names) == col_ix > Len(names)

\* the loop over results[0].keys() is exhausted
MergeDone ==
    /\ pc = "merge"
    /\ HasKey(results, 0)
    /\ \A i \in 1..Len(results) : results[i].val.kind = "dict"
    /\ ColumnLoopDone(Keys(Lookup(results, 0).cols))
    /\ pc' = "write"
    /\ UNCHANGED <<args, share_memory, warned, loaded, fanout, shared, merged,
                   output>>

(* ------------------------------- output ------------------------------- *)
\* lines 205-227: proc_count and parquet.write_table
WriteTable ==
    /\ pc = "write"
    /\ IF ~HasKey(array_dict, "t")
       THEN /\ pc' = "raised"
            /\ raised' = "KeyError"
            /\ UNCHANGED <<proc_count, table, outfile>>
       ELSE IF \E i \in 1..Len(array_dict) :
                  Len(array_dict[i].val) # Len(Lookup(array_dict, "t"))
       THEN \* Table.from_arrays refuses columns of unequal length
            /\ proc_count' = Len(Lookup(array_dict, "t"))
            /\ pc' = "raised"
            /\ raised' = "ArrowInvalid"
            /\ UNCHANGED <<table, outfile>>
       ELSE /\ proc_count' = Len(Lookup(array_dict, "t"))
            /\ table' = array_dict
            /\ outfile' = "new"
            /\ pc' = "stats"
            /\ UNCHANGED raised
    /\ UNCHANGED <<args, share_memory, warned, loaded, chunks, total_chunks,
                   chunk_ix, pool, inqueue, results, collected, get_ix, task,
                   taskargs, taskres, finished, shared, chunk_indices, array_dict, col_ix,
                   missing_warned, returned>>

\* variant of WarnsMissing that does not look at verbose
WarnsMissingAlways == proc_count < nphots

\* lines 232 and 240-241: the warning is inside the "if verbose:" block
WarnsMissing == verbose # 0 /\ proc_count < nphots

\* lines 228-244: runtime statistics when verbose, then return outfile
Return ==
    /\ pc = "stats"
    /\ missing_warned' = WarnsMissing
    /\ returned' = "outfile"
    /\ pc' = "returned"
    /\ UNCHANGED <<args, share_memory, warned, loaded, fanout, shared, merged,
                   outfile, table>>

Next ==
    \/ Entry \/ CheckOutfile \/ Retrieve \/ LoadCal \/ LoadRaw6 \/ Stims \/ Yac
    \/ Partition \/ MakePool \/ Submit \/ TaskStart
    \/ (\E k \in ChunkIxs : TaskFinish(k))
    \/ SubmitDone \/ PoolJoin \/ Get \/ Collected
    \/ Sort \/ UnlinkCal \/ MergeColumn \/ MergeDone \/ WriteTable \/ Return

Spec == Init /\ [][Next]_vars

\* the same program with a chunk function that may break the output schema
SpecAnyResult == InitAnyResult /\ [][Next]_vars

(* ======================== properties of the run ======================= *)
UsesPool == pool \in {"open", "closed", "joined"}
SharedMode == share_memory = "True"
Submitted(k) == task[k] # "none"
AllChunksComplete == \A k \in 0..(total_chunks - 1) : TaskComplete(k)
\* the coordinator has left the merge loop with every column stacked
MergeFinished == pc \in {"write", "stats"} \/ (pc = "returned" /\ pool # "unset")
Ascending(q) == \A i, j \in 1..Len(q) : i < j => q[i] < q[j]
Descending(q) == \A i, j \in 1..Len(q) : i < j => q[i] > q[j]
OriginalTimes == [i \in 1..Len(raw6) |-> raw6[i].t]

\* C1: unshared mode with a pool: every merged column is the per-chunk results
\* stacked in ascending chunk index 0..K-1, whatever order the tasks ended in
\* and although they were submitted in descending order; once the merge is
\* over every column is there and the times are in original photon order.
C1_MergeOrderUnshared ==
    (~SharedMode /\ UsesPool) =>
        /\ \A i \in 1..Len(array_dict) :
              array_dict[i].val =
                 Concat([k \in 1..total_chunks |->
                           Lookup(taskres[k - 1], array_dict[i].key)])
        /\ MergeFinished =>
              /\ Keys(array_dict) = Columns
              /\ Lookup(array_dict, "t") = OriginalTimes

\* a merged unshared pool run of at least three chunks whose tasks ended in an
\* order that is neither the chunk order nor the submission order
C1_Witness ==
    /\ ~SharedMode /\ UsesPool /\ pc = "returned"
    /\ total_chunks >= 3
    /\ Len(finished) = total_chunks
    /\ ~Ascending(finished) /\ ~Descending(finished)
    /\ Len(Lookup(array_dict, "t")) >= 2

\* C2: shared mode: every merged column is the chunks' data read from shared
\* memory and stacked in ascending chunk index 0..K-1, although the results
\* dict handed to get_column_from_shared_memory lists the keys in descending
\* order K-1..0; the merged times are in original photon order.
C2_MergeOrderShared ==
    SharedMode =>
        /\ \A i \in 1..Len(array_dict) :
              array_dict[i].val =
                 Concat([k \in 1..total_chunks |->
                           ReadDescriptor(Lookup(taskres[k - 1], array_dict[i].key),
                                          shm)])
        /\ pc \in {"sort", "unlink_cal", "merge", "write", "stats"} =>
              Keys(results) = [i \in 1..total_chunks |-> total_chunks - i]
        /\ MergeFinished =>
              /\ Keys(array_dict) = Columns
              /\ Lookup(array_dict, "t") = OriginalTimes

\* a merged shared run of at least two non-empty chunks whose results dict is
\* in descending key order
C2_Witness ==
    /\ SharedMode /\ UsesPool /\ pc = "stats"
    /\ total_chunks >= 3
    /\ Keys(results) = [i \in 1..total_chunks |-> total_chunks - i]
    /\ Len(Lookup(array_dict, "t")) >= 2

\* C3: with a pool the submission loop never waits for a task (the next
\* apply_async is always possible), and the coordinator is past the barrier
\* (collecting, unlinking, merging, writing, returning or raising) only when
\* every submitted chunk task has completed.
C3_Barrier ==
    UsesPool =>
        /\ (pc = "submit" /\ chunk_ix >= 0) => ENABLED Submit
        /\ pc \in {"collect", "sort", "unlink_cal", "merge", "write", "stats",
                   "returned", "raised"} =>
              /\ \A k \in ChunkIxs : Submitted(k) => TaskComplete(k)
              /\ \A k \in 0..(total_chunks - 1) : Submitted(k)

\* all chunks of a run of three or more are submitted while none has completed
C3_Witness ==
    /\ UsesPool /\ pc = "join"
    /\ total_chunks >= 3
    /\ \A k \in 0..(total_chunks - 1) : task[k] \in {"queued", "running"}

\* the chunk task k was handed a reference to segment s, or created it
References(k, s) ==
    /\ Submitted(k)
    /\ SharedMode
    /\ \/ s = CalSeg /\ taskargs[k].cal_data = "shared"
       \/ s = taskargs[k].chunk.seg
       \/ s = ResSeg(k)

\* C4: shared mode: a step that unlinks a segment (calibration block, data
\* segment or result segment) is taken only when every chunk task that
\* references the segment has completed, and no segment is unlinked twice.
C4_UnlinkDiscipline ==
    [][SharedMode =>
          \A s \in Segments :
             /\ unlinks'[s] <= 1
             /\ unlinks'[s] > unlinks[s] =>
                   \A k \in ChunkIxs : References(k, s) => TaskComplete(k)]_vars

\* a shared pool run of several chunks has unlinked the calibration block, the
\* data segment and every result segment, each once
C4_Witness ==
    /\ SharedMode /\ UsesPool /\ total_chunks >= 3
    /\ unlinks[CalSeg] = 1 /\ seg[CalSeg] = "unlinked"
    /\ unlinks[DataSeg] = 1 /\ seg[DataSeg] = "unlinked"
    /\ \A k \in 0..(total_chunks - 1) :
          unlinks[ResSeg(k)] = 1 /\ seg[ResSeg(k)] = "unlinked"

\* C5 as stated: in every pool configuration, the inline one included, a chunk
\* failure reaches the caller only when every chunk task of the run has been
\* submitted and has completed.
C5_AsStated ==
    (pc = "raised" /\ raised = "WorkerError") => AllChunksComplete

\* C5 amended: with a pool a chunk failure reaches the caller only when every
\* chunk task has been submitted and has completed; inline it reaches the
\* caller from the failing chunk's own call, when the chunks of higher index
\* have been processed and those of lower index have not been started.
C5_FailurePropagation ==
    (pc = "raised" /\ raised = "WorkerError") =>
        IF UsesPool
        THEN AllChunksComplete
        ELSE /\ task[chunk_ix] = "failed"
             /\ \A k \in 0..(total_chunks - 1) :
                   /\ k > chunk_ix => task[k] = "done"
                   /\ k < chunk_ix => task[k] = "none"

\* a pool run of several chunks raises a chunk failure after the other chunks
\* have completed with results
C5_Witness ==
    /\ UsesPool /\ pc = "raised" /\ raised = "WorkerError"
    /\ total_chunks >= 3
    /\ Cardinality({k \in ChunkIxs : task[k] = "failed"}) = 1
    /\ Cardinality({k \in ChunkIxs : task[k] = "done"}) = total_chunks - 1

\* C6: once a chunk has failed the output file is never written; the file is
\* written only when every chunk has a collected result and every column is
\* merged, and a run that raised leaves no file at the output path.
C6_NoOutputOnFailure ==
    /\ (\E k \in ChunkIxs : task[k] = "failed") => (outfile # "new" /\ table = <<>>)
    /\ pc = "raised" => outfile = "absent"
    /\ outfile = "new" =>
          /\ \A k \in 0..(total_chunks - 1) :
                /\ task[k] = "done"
                /\ HasKey(results, k)
                /\ Lookup(results, k).kind = "dict"
          /\ Keys(array_dict) = Columns
          /\ table = array_dict

\* a run in which one chunk failed and others succeeded has raised and left no
\* output file
C6_Witness ==
    /\ pc = "raised" /\ raised = "WorkerError"
    /\ \E k \in ChunkIxs : task[k] = "failed"
    /\ \E k \in ChunkIxs : task[k] = "done"
    /\ outfile = "absent" /\ table = <<>>

\* the stream the partitioner was given: the decoded stream after the
\* corrections that were applied to it
PartitionedStream == IF yac_applied THEN perform_yac_correction(raw6) ELSE raw6

\* the rows a descriptor of slice_into_shared_chunks covers in stream d
DescriptorRows(c, d) == SubSeq(d, c.offset + 1, c.offset + c.shape)

\* the rows of the chunks the coordinator holds, in list order
HeldChunkRows ==
    [k \in 1..Len(chunks) |->
        IF SharedMode THEN DescriptorRows(chunks[k], shm[chunks[k].seg])
        ELSE chunks[k]]

\* C7: right after partitioning, the chunks in list order are consecutive row
\* ranges that together are exactly the stream (no gap, no overlap), chunk k
\* of slice_into_shared_chunks covers the rows of chunk k of chunk_data, and
\* when chunksz does not divide N the last chunk has N mod chunksz rows.
C7_ChunksTile ==
    pc = "make_pool" =>
        LET d == PartitionedStream
            unsh == chunk_data(chunksz, d, nphots)
            sh == slice_into_shared_chunks(chunksz, d, nphots)
        IN  /\ Concat(HeldChunkRows) = d
            /\ total_chunks = Len(chunks)
            /\ Len(unsh) = Len(sh)
            /\ \A k \in 1..Len(sh) :
                  /\ DescriptorRows(sh[k], d) = unsh[k]
                  /\ HeldChunkRows[k] = unsh[k]
            /\ nphots % chunksz # 0 =>
                  Len(HeldChunkRows[Len(chunks)]) = nphots % chunksz

\* a shared-mode partition of a stream whose length chunksz does not divide,
\* into more than one chunk
C7_Witness ==
    /\ pc = "make_pool" /\ SharedMode
    /\ nphots % chunksz # 0
    /\ total_chunks >= 2
    /\ Len(HeldChunkRows[Len(chunks)]) = 1
    /\ Len(HeldChunkRows[1]) = 2

\* the result of processing the whole stream as one chunk
SingleChunkResult ==
    process_chunk_in_unshared_memory(
        [chunk |-> PartitionedStream,
         stim_coefficients |-> create_ssd_from_decoded_data(raw6)])

\* C8: the table a run writes is the result of processing the whole stream as
\* a single chunk, N rows in original order under the full column set, for
\* every pool size (inline included), chunk size and memory mode.
C8_SameAsSingleChunk ==
    outfile = "new" =>
        /\ table = SingleChunkResult
        /\ Keys(table) = Columns
        /\ \A i \in 1..Len(table) : Len(table[i].val) = Len(raw6)

\* a pool run of three or more chunks has written a table of several rows
C8_Witness ==
    /\ outfile = "new" /\ pc = "returned"
    /\ UsesPool /\ threads = 2 /\ total_chunks >= 3
    /\ Len(raw6) >= 2
    /\ table = SingleChunkResult

\* C9: while the output file exists and overwrite is false, every step keeps
\* the file and leaves the loaded inputs, the calibration data, the shared
\* segments, the pool, the chunk tasks and the merged columns as they were;
\* the run only moves to the check and from there returns the output path.
C9_AbortIsFrameOnly ==
    [][(outfile = "old" /\ ~overwrite) =>
          /\ outfile' = "old"
          /\ UNCHANGED <<table, loaded, fanout, shared, merged>>
          /\ pc' \in {"check_outfile", "returned"}
          /\ pc' = "returned" => returned' = "outfile"]_vars

\* the run returned the path of the file it found, with nothing loaded
C9_Witness ==
    /\ pc = "returned" /\ returned = "outfile"
    /\ outfile = "old" /\ ~overwrite
    /\ aspect = FALSE /\ cal_data = "none" /\ pool = "unset"

EmptyTable == << [key |-> "t", val |-> <<>>], [key |-> "x", val |-> <<>>] >>

PastYac ==
    \/ pc \in {"partition", "make_pool", "submit", "join", "collect", "sort",
               "unlink_cal", "merge", "write", "stats"}
    \/ (pc \in {"returned", "raised"} /\ pool # "unset")

\* C11 as stated: the yac correction is applied before partitioning exactly
\* when the eclipse is at or above 37460.
C11_AsStated ==
    PastYac => (yac_applied <=> eclipse >= YacEclipse)

\* C11 amended: the yac correction is applied to the stream before
\* partitioning exactly when the eclipse is above 37460; at 37460 and below
\* the stream reaches the partitioner as it was decoded.
C11_YacAboveThreshold ==
    /\ PastYac => (yac_applied <=> eclipse > YacEclipse)
    /\ ~PastYac => ~yac_applied
    /\ pc = "partition" =>
          data = IF eclipse > YacEclipse THEN perform_yac_correction(raw6) ELSE raw6

\* a run at the threshold eclipse reaches the partitioner with photons that
\* were not corrected
C11_Witness ==
    /\ pc = "partition" /\ eclipse = YacEclipse
    /\ ~yac_applied /\ Len(data) >= 1 /\ data = raw6

\* C12: past the entry, a share_memory that was not given is enabled exactly
\* when threads is not None and a given one is kept; the warning was emitted
\* exactly when shared memory is enabled and threads is None; such a run
\* publishes the calibration data and the stream to shared memory, has no
\* pool, never joins or calls get(), and the table it writes is the
\* single-chunk result that every other configuration writes.
C12_ShareMemoryDefault ==
    pc # "entry" =>
        /\ share_memory_arg = None =>
              (share_memory = "True" <=> threads # NoThreads)
        /\ share_memory_arg # None => share_memory = share_memory_arg
        /\ share_memory \in {"True", "False"}
        /\ warned <=> (share_memory = "True" /\ threads = NoThreads)
        /\ warned =>
              /\ pool \in {"unset", "none"}
              /\ pc \notin {"join", "collect"}
              /\ collected = <<>> /\ get_ix = 1
              /\ cal_data \in {"none", "shared"}
              /\ pc \in {"make_pool", "submit"} => seg[DataSeg] = "linked"
              /\ \A i \in 1..Len(results) : results[i].val.kind = "dict"
              /\ outfile = "new" => table = SingleChunkResult

\* a warned run (shared memory, no pool) of several chunks has read its
\* columns back from shared memory and returned the table
C12_Witness ==
    /\ warned /\ pc = "returned" /\ outfile = "new"
    /\ total_chunks >= 3 /\ Len(raw6) >= 2
    /\ unlinks[DataSeg] = 1 /\ unlinks[CalSeg] = 1
    /\ table = SingleChunkResult

\* nothing has been retrieved, loaded or processed yet
NothingStarted ==
    /\ ~aspect /\ cal_data = "none" /\ data = <<>> /\ nphots = 0
    /\ pool = "unset" /\ results = <<>>
    /\ \A s \in Segments : seg[s] = "none"

\* C13: in a run that found an existing output with overwrite set, the old
\* file is at the path only while nothing has been retrieved, loaded or
\* processed; from retrieval up to the final write, and at the end of a run
\* that raised, nothing is at the path; a new file is there only once every
\* column is merged, and it is written by the step that ends the merge.
C13_OverwriteDeletesFirst ==
    (existed /\ overwrite) =>
        /\ outfile = "old" => (pc \in {"entry", "check_outfile"} /\ NothingStarted)
        /\ pc \in {"retrieve", "load_cal", "load_raw6", "stims", "yac",
                   "partition", "make_pool", "submit", "join", "collect",
                   "sort", "unlink_cal", "merge", "write", "raised"}
              => outfile = "absent"
        /\ outfile = "new" => (pc \in {"stats", "returned"} /\ MergeFinished)
        /\ pc = "returned" => outfile = "new"

\* a run that deleted an existing output and then failed at the barrier
C13_Witness ==
    /\ existed /\ overwrite /\ pc = "raised" /\ raised = "WorkerError"
    /\ outfile = "absent" /\ UsesPool /\ aspect /\ nphots >= 2

\* the list the partitioner returned for this run
ChunkList ==
    IF SharedMode
    THEN slice_into_shared_chunks(chunksz, PartitionedStream, nphots)
    ELSE chunk_data(chunksz, PartitionedStream, nphots)

\* the rows a chunk stands for
RowsOf(chunk) ==
    IF SharedMode THEN DescriptorRows(chunk, PartitionedStream) ELSE chunk

\* row range k of the stream
RowRange(k) ==
    SubSeq(PartitionedStream, k * chunksz + 1, Min((k + 1) * chunksz, nphots))

KeySet(d) == {d[i].key : i \in 1..Len(d)}

\* an iteration of the submission loop
SubmitStep == pc = "submit" /\ chunks' # chunks

\* C14: the partitioner's list holds row range k at index k; the loop starts
\* at K-1 with empty results; the iteration for index k finds chunks 0..k in
\* the list, takes chunk k off its end and hands it, with the label "k+1 of
\* K", to the task it stores under key k, which was not submitted before;
\* the loop is left with an empty list and the keys 0..K-1; no other step
\* touches the list, the arguments of a task, the keys of results or the set
\* of submitted tasks.
C14_SubmissionLoop ==
    [][ /\ pc = "partition" =>
              /\ chunks' = ChunkList' /\ total_chunks' = Len(chunks')
              /\ \A k \in 0..(total_chunks' - 1) :
                    (RowsOf(chunks[k + 1]))' = (RowRange(k))'
        /\ pc = "make_pool" =>
              /\ chunk_ix' = total_chunks - 1 /\ results' = <<>>
              /\ \A k \in ChunkIxs : ~Submitted(k)
        /\ SubmitStep =>
              /\ Len(chunks) = chunk_ix + 1
              /\ chunks' = SubSeq(chunks, 1, chunk_ix)
              /\ chunks[chunk_ix + 1] = ChunkList[chunk_ix + 1]
              /\ taskargs'[chunk_ix].chunk = chunks[chunk_ix + 1]
              /\ taskargs'[chunk_ix].label = <<chunk_ix + 1, total_chunks>>
              /\ ~Submitted(chunk_ix) /\ ~HasKey(results, chunk_ix)
              /\ task'[chunk_ix] # "none"
              /\ \/ pc' = "raised" /\ results' = results
                 \/ /\ pc' = "submit" /\ chunk_ix' = chunk_ix - 1
                    /\ Keys(results') = Append(Keys(results), chunk_ix)
                    /\ LET v == Lookup(results', chunk_ix)
                       IN  IF v.kind = "AsyncResult" THEN v.task = chunk_ix
                           ELSE v.cols = taskres'[chunk_ix]
              /\ \A k \in ChunkIxs \ {chunk_ix} :
                    /\ taskargs'[k] = taskargs[k]
                    /\ (task'[k] # "none") <=> Submitted(k)
        /\ (pc = "submit" /\ pc' \in {"join", "sort"}) =>
              /\ chunks = <<>> /\ chunk_ix = -1
              /\ KeySet(results) = 0..(total_chunks - 1)
              /\ Len(results) = total_chunks
              /\ \A k \in ChunkIxs : Submitted(k) <=> k < total_chunks
        /\ ~SubmitStep =>
              /\ taskargs' = taskargs
              /\ KeySet(results') = KeySet(results)
              /\ \A k \in ChunkIxs : (task'[k] # "none") <=> Submitted(k)
              /\ pc # "partition" => (chunks' = chunks /\ total_chunks' = total_chunks)
              /\ pc # "make_pool" => chunk_ix' = chunk_ix ]_vars

\* the loop has ended over the four chunks of a pool run, the last one empty
C14_Witness ==
    /\ pc = "join" /\ total_chunks = 4 /\ chunks = <<>>
    /\ Keys(results) = <<3, 2, 1, 0>>
    /\ RowsOf(taskargs[0].chunk) = <<raw6[1]>>
    /\ RowsOf(taskargs[2].chunk) = <<raw6[3]>>
    /\ RowsOf(taskargs[3].chunk) = <<>>

\* the coordinator's steps up to the submission loop, in program order
StepOrder ==
    <<"entry", "check_outfile", "retrieve", "load_cal", "load_raw6", "stims",
      "yac", "partition", "make_pool", "submit">>

StepRank(p) == CHOOSE i \in 1..Len(StepOrder) : StepOrder[i] = p

FanOutStarted == pool # "unset" \/ \E k \in ChunkIxs : Submitted(k)

\* everything the chunk tasks depend on is in place
ReadyForFanOut ==
    /\ aspect
    /\ cal_data = IF SharedMode THEN "shared" ELSE "local"
    /\ stim_coefficients = create_ssd_from_decoded_data(raw6)
    /\ yac_applied <=> eclipse > YacEclipse
    /\ chunks = ChunkList /\ total_chunks = Len(chunks) /\ data = <<>>
    /\ SharedMode => (seg[CalSeg] = "linked" /\ seg[DataSeg] = "linked")

\* C15: the coordinator takes its full-stream steps one after the other in
\* program order (calibration data, raw stream, stim pass, secondary
\* correction, partition, pool, submission); when the pool is created the
\* calibration data is published, the stim coefficients are those of the
\* whole stream, the correction is decided and the stream is partitioned,
\* and no task has been submitted; each of aspect, cal_data,
\* stim_coefficients, yac_applied and the partition changes only in its own
\* step, and none changes once the pool exists; a task is submitted only
\* after that, with the coordinator's cal_data, aspect and stim_coefficients,
\* and its arguments never change; the calibration blocks are unlinked only
\* by the step after the barrier.
C15_FullStreamBeforeFanOut ==
    [][ /\ (pool = "unset" /\ pool' # "unset") =>
              /\ pc = "make_pool" /\ ReadyForFanOut
              /\ \A k \in ChunkIxs : ~Submitted(k)
        /\ \A k \in ChunkIxs :
              /\ (~Submitted(k) /\ task'[k] # "none") =>
                    /\ pc = "submit" /\ pool # "unset"
                    /\ taskargs'[k].cal_data = cal_data
                    /\ taskargs'[k].aspect = aspect
                    /\ taskargs'[k].stim_coefficients = stim_coefficients
              /\ Submitted(k) => taskargs'[k] = taskargs[k]
        /\ (pc \in Range(StepOrder) /\ pc # "submit" /\ pc' # pc) =>
              \/ pc' \in {"returned", "raised"}
              \/ pc' = StepOrder[StepRank(pc) + 1]
        /\ (pc' = "submit" /\ pc # "submit") => pc = "make_pool"
        /\ aspect' # aspect => pc = "retrieve"
        /\ cal_data' # cal_data => pc = "load_cal"
        /\ seg'[CalSeg] # seg[CalSeg] => pc \in {"load_cal", "unlink_cal"}
        /\ stim_coefficients' # stim_coefficients => pc = "stims"
        /\ yac_applied' # yac_applied => pc = "yac"
        /\ total_chunks' # total_chunks => pc = "partition"
        /\ FanOutStarted =>
              /\ aspect' = aspect /\ cal_data' = cal_data
              /\ stim_coefficients' = stim_coefficients
              /\ yac_applied' = yac_applied /\ total_chunks' = total_chunks
              /\ pool' # "unset" ]_vars

\* a shared-memory pool run over a corrected stream waits at the barrier with
\* every task holding the same arguments
C15_Witness ==
    /\ pc = "join" /\ SharedMode /\ yac_applied /\ total_chunks >= 3
    /\ stim_coefficients = 1
    /\ \A k \in 0..(total_chunks - 1) :
          /\ Submitted(k)
          /\ taskargs[k].stim_coefficients = 1
          /\ taskargs[k].cal_data = "shared"
    /\ \E k \in 0..(total_chunks - 1) : task[k] = "done"

\* the column names of the result of chunk k
ColumnNames(k) == KeySet(taskres[k])

\* every chunk has handed back a result and two of them differ in their
\* column names
ColumnSetsDiffer ==
    /\ pool # "unset" /\ total_chunks >= 1
    /\ \A k \in 0..(total_chunks - 1) : task[k] = "done"
    /\ \E i, j \in 0..(total_chunks - 1) : ColumnNames(i) # ColumnNames(j)

\* C16: when the chunk results do not all have the same column names, no
\* output table is written and the run does not return normally.
C16_AsStated ==
    ColumnSetsDiffer => (outfile # "new" /\ pc # "returned")

\* the run got past the existing-output check and returned
ReturnedFromRun == pc = "returned" /\ pool # "unset"

\* C17 as stated: a run that merged fewer rows than the input photon count
\* has emitted the missing-events warning, whatever the verbosity.
C17_AsStated ==
    (ReturnedFromRun /\ proc_count < nphots) =>
        (missing_warned /\ outfile = "new" /\ returned = "outfile")

\* C17 amended: a shortfall never raises: the table is written and its path
\* returned; the missing-events warning is emitted exactly when verbose is
\* nonzero and fewer rows were merged than photons were read.
C17_ShortfallWarning ==
    /\ (pc \in {"stats", "returned"} /\ pool # "unset" /\ proc_count < nphots) =>
          (outfile = "new" /\ table = array_dict /\ raised = None)
    /\ ReturnedFromRun =>
          /\ returned = "outfile"
          /\ missing_warned <=> (verbose # 0 /\ proc_count < nphots)
    /\ pc # "returned" => ~missing_warned
    /\ outcomes = {"ok", "short"} => pc # "raised"

\* a quiet run that lost rows returned its table without the warning
C17_Witness ==
    /\ ReturnedFromRun /\ verbose = 0 /\ nphots = 3 /\ proc_count = 1
    /\ ~missing_warned /\ outfile = "new" /\ returned = "outfile"
    /\ Len(Lookup(table, "x")) = 1

\* the column names the merge loop walks
MergeNames == Keys(Lookup(results, 0).cols)

\* the columns of the chunk results that are stored in segment s
BackedColumns(s) ==
    {n \in Range(MergeNames) : s \in ColumnSegments(results, n)}

\* the data and result segments the chunk results point into
ResultSegments == UNION {ColumnSegments(results, n) : n \in Range(MergeNames)}

\* C18 as stated: in shared mode a data or result segment is unlinked only
\* when the last column has been retrieved.
C18_AsStated ==
    (SharedMode /\ \E s \in Segments \ {CalSeg} : seg[s] = "unlinked") =>
        \/ pc \in {"write", "stats", "returned"}
        \/ (pc = "merge" /\ col_ix > Len(MergeNames))

\* C18 amended: in shared mode a data or result segment is unlinked inside
\* the per-column loop, by the very call that retrieves the column stored in
\* it, together with that column's copy into array_dict: after the step
\* every column stored in the segment is in array_dict, no later call finds
\* its segment gone, and when the loop is over every segment the results
\* point into has been unlinked exactly once.
C18_UnlinkPerColumn ==
    [][SharedMode =>
          /\ \A s \in Segments \ {CalSeg} :
                unlinks'[s] > unlinks[s] =>
                    /\ pc = "merge" /\ col_ix' = col_ix + 1
                    /\ s \in ColumnSegments(results, MergeNames[col_ix])
                    /\ Lookup(array_dict', MergeNames[col_ix]) =
                          get_column_from_shared_memory(results, MergeNames[col_ix], shm)
                    /\ \A n \in BackedColumns(s) : HasKey(array_dict', n)
                    /\ seg[s] = "linked" /\ seg'[s] = "unlinked"
          /\ raised' # "FileNotFoundError"
          /\ pc' \in {"write", "stats"} =>
                \A s \in ResultSegments : unlinks'[s] = 1 /\ seg'[s] = "unlinked"]_vars

\* the first column has been retrieved and its segment unlinked while the
\* second column is still in its linked result segments
C18_Witness ==
    /\ SharedMode /\ pc = "merge" /\ col_ix = 2 /\ total_chunks >= 3
    /\ seg[DataSeg] = "unlinked" /\ unlinks[DataSeg] = 1
    /\ HasKey(array_dict, "t") /\ ~HasKey(array_dict, "x")
    /\ Len(Lookup(array_dict, "t")) >= 2
    /\ \A k \in 0..(total_chunks - 1) : seg[ResSeg(k)] = "linked"

\* the run has ended: photonpipe returned or an exception left it
RunEnded == pc \in {"returned", "raised"}

\* C19: shared mode with a pool: when the run has ended, by a return or by an
\* exception raised when the results are collected, with every chunk task
\* finished, no calibration block and no data or result segment it published
\* is still linked.
C19_AsStated ==
    (SharedMode /\ RunEnded /\ UsesPool /\ AllChunksComplete) =>
        \A s \in Segments : seg[s] # "linked"

(* ----------------------------- progress ------------------------------- *)
\* the steps of the coordinator, a sequential program that keeps running
Coordinator ==
    \/ Entry \/ CheckOutfile \/ Retrieve \/ LoadCal \/ LoadRaw6 \/ Stims \/ Yac
    \/ Partition \/ MakePool \/ Submit \/ SubmitDone \/ PoolJoin \/ Get
    \/ Collected \/ Sort \/ UnlinkCal \/ MergeColumn \/ MergeDone \/ WriteTable
    \/ Return

\* a quiet run on a free output path, share_memory left to its default, on a
\* stream shorter than the longest one
InitLive ==
    Start(WorkerOutcomes) /\ outfile = "absent" /\ ~overwrite /\ verbose = 0
        /\ eclipse = YacEclipse + 1 /\ share_memory = None
        /\ Len(raw6) < MaxPhotons

\* the coordinator goes on whenever it can, and an idle pool worker takes the
\* next queued task; nothing makes a running task end
LiveSpec ==
    InitLive /\ [][Next]_vars /\ WF_vars(Coordinator) /\ WF_vars(TaskStart)

\* chunk task k has been submitted to the pool and has not ended
Pending(k) == task[k] \in {"queued", "running"}

PastBarrier ==
    \/ pc \in {"collect", "sort", "unlink_cal", "merge", "write", "stats"}
    \/ ReturnedFromRun

\* some submitted task has not ended.  A task that has ended stays so and
\* there are finitely many, so some task never ends exactly when from some
\* point on there is always a pending one.
AnyPending == \E k \in ChunkIxs : Pending(k)

\* C20: if every submitted chunk task ends (with a result or a failure) the
\* run ends, by returning the output path or by raising; if some submitted
\* task never ends, the coordinator gets to the barrier and stays there for
\* good: it never collects, merges, writes, returns or raises.
C20_HungWorkerBlocks ==
    /\ []<>(~AnyPending) => <>RunEnded
    /\ <>[]AnyPending =>
          /\ <>[](pc = "join" /\ pool = "closed")
          /\ [](~PastBarrier /\ outfile # "new" /\ pc # "raised")

\* the coordinator waits at the barrier: one task has ended, another is still
\* running, and the join cannot return
C20_Witness ==
    /\ pc = "join" /\ pool = "closed"
    /\ \E k \in ChunkIxs : task[k] = "running"
    /\ \E k \in ChunkIxs : task[k] = "done"
    /\ ~ENABLED PoolJoin
    /\ outfile = "absent" /\ array_dict = <<>>
====
